---- MODULE Spec2Model ----
(***************************************************************************)
(* Euro IT Accounts: the optimistic synchronisation layer of App.tsx and   *)
(* the persistence adapter of services/dataService.ts.                     *)
(*                                                                         *)
(* One JavaScript event-loop task is one action.  An async handler is cut  *)
(* at the awaits that really suspend it (a request to the remote backend); *)
(* the local-storage branch of the adapter has no such await, so a handler *)
(* that runs on the local backend is one action.  The remote backend       *)
(* answers each request at a time of its own choosing with success or an   *)
(* error.  React state updaters are taken to run when they are enqueued.   *)
(***************************************************************************)
EXTENDS Integers, Sequences, FiniteSets, TLC

VARIABLES
    data,               \* App: the Ledger Store (useState<AppData>)
    hasConnectionError, \* App: top-level connection-error flag
    isInitialized,      \* App: initApp has finished
    currentUser,        \* App: the logged-in user, or NoUser
    currentView,        \* App: the selected view
    storedUser,         \* localStorage[AUTH_KEY]
    sbConfig,           \* localStorage[biztrack_sb_url], [biztrack_sb_key]
    localBlob,          \* localStorage[STORAGE_KEY]: NoBlob or [value |-> AppData]
    DEFAULT_DATA,       \* dataService: the module-level default object (mutable)
    cloud,              \* the remote backend's three tables
    calls,              \* the async flows started so far, in issue order
    alerts,             \* the alert() calls made so far: <<call, message>>
    settings,           \* Settings: sbUrl, sbKey, connectionStatus of the mounted panel
    report              \* Reports: the filter state of the mounted view

appVars == <<data, hasConnectionError, isInitialized, currentUser, currentView>>
storageVars == <<storedUser, sbConfig, localBlob, DEFAULT_DATA>>
vars == <<data, hasConnectionError, isInitialized, currentUser, currentView,
          storedUser, sbConfig, localBlob, DEFAULT_DATA, cloud, calls, alerts,
          settings, report>>

(***************************************************************************)
(* Bounds of the model.                                                    *)
(***************************************************************************)
\* operations a user issues in one run of the mutation specification
MaxMutations == 2
\* operations a user issues after start-up in one run of the bulk specification
MaxBulkOps == 1

(***************************************************************************)
(* Records (types.ts).  isActive is "true", "false" or "absent"; type is   *)
(* "RECEIVED", "REFUND" or "absent"; method is a label or "absent".        *)
(***************************************************************************)
\* the names clients are given, in the order localeCompare puts them
Alphabet == <<"Amy", "Bob", "Zed">>

\* the name typed for the client that gets the id `id`
NameOf(id) == IF id = 1 THEN "Zed" ELSE IF id = 2 THEN "Amy" ELSE "Bob"

Client(id, billed) ==
    [id |-> id, name |-> NameOf(id), isActive |-> "true", totalBilled |-> billed]

Payment(id, clientId, amount, type) ==
    [id |-> id, clientId |-> clientId, amount |-> amount, type |-> type,
     method |-> "Cash", date |-> 1]

Expense(id, amount) ==
    [id |-> id, category |-> "Rent", amount |-> amount, date |-> 1]

\* a JSON null standing where a record is expected (an import file may hold one)
NullEntry == [null |-> TRUE]

IsNull(x) == DOMAIN x = {"null"}

HasNull(seq) == \E i \in DOMAIN seq : IsNull(seq[i])

EmptyLedger == [clients |-> <<>>, payments |-> <<>>, expenses |-> <<>>]

\* an import file whose clients array holds a null.  A local import stores it
\* as it is; the load after it throws, and "Check Settings" then shows the
\* views again
NullClientLedger ==
    [clients |-> <<NullEntry>>, payments |-> <<>>, expenses |-> <<>>]

NoUser == [role |-> "NONE"]

AdminUser == [role |-> "ADMIN"]

ViewerUser == [role |-> "VIEWER"]

NoBlob == [present |-> FALSE]

Blob(v) == [present |-> TRUE, value |-> v]

Collections == {"clients", "payments", "expenses"}

(***************************************************************************)
(* Array helpers: Array.prototype.map / filter as the handlers use them.   *)
(***************************************************************************)
Ids(seq) == {seq[i].id : i \in DOMAIN seq}

\* arr.map(x => x.id === item.id ? item : x)
ReplaceById(seq, item) ==
    [i \in DOMAIN seq |-> IF seq[i].id = item.id THEN item ELSE seq[i]]

\* arr.filter(x => x.id !== id)
RemoveById(seq, id) == SelectSeq(seq, LAMBDA x : x.id # id)

(***************************************************************************)
(* App.tsx: the optimistic update of each mutation handler, the snapshot   *)
(* it takes before and the rollback it performs in its catch block.        *)
(***************************************************************************)
Mutations == {"addClient", "updateClient", "addPayment", "updatePayment",
              "deletePayment", "addExpense", "deleteExpense"}

\* the collection a mutation works on
TableOf(op) ==
    CASE op \in {"addClient", "updateClient"} -> "clients"
      [] op \in {"addPayment", "updatePayment", "deletePayment"} -> "payments"
      [] op \in {"addExpense", "deleteExpense"} -> "expenses"

\* const prevData = { ...data }
SnapshotAfterUpdate(prev, next) == next

Snapshot(prev, next) == prev

\* setData(prev => ...) of the seven handlers
OptimisticPrepends(op, arg, prev) ==
    CASE op \in {"addClient", "addPayment", "addExpense"} ->
            [prev EXCEPT ![TableOf(op)] = <<arg>> \o @]
      [] op \in {"updateClient", "updatePayment"} ->
            [prev EXCEPT ![TableOf(op)] = ReplaceById(@, arg)]
      [] op \in {"deletePayment", "deleteExpense"} ->
            [prev EXCEPT ![TableOf(op)] = RemoveById(@, arg.id)]

Optimistic(op, arg, prev) ==
    CASE op \in {"addClient", "addPayment", "addExpense"} ->
            [prev EXCEPT ![TableOf(op)] = Append(@, arg)]
      [] op \in {"updateClient", "updatePayment"} ->
            [prev EXCEPT ![TableOf(op)] = ReplaceById(@, arg)]
      [] op \in {"deletePayment", "deleteExpense"} ->
            [prev EXCEPT ![TableOf(op)] = RemoveById(@, arg.id)]

\* setData(prevData) in the catch block: current is the state it overwrites
RollbackOwnCollection(op, current, prevData) ==
    [current EXCEPT ![TableOf(op)] = prevData[TableOf(op)]]

Rollback(op, current, prevData) == prevData

(***************************************************************************)
(* lib/supabaseClient.ts: the backend is remote iff both the URL and the   *)
(* key are stored and non-empty.                                           *)
(***************************************************************************)
NoConfig == [url |-> "", key |-> ""]

CloudConfig == [url |-> "https://project.supabase.co", key |-> "anon-key"]

getSupabaseClientUrlOnly(cfg) == cfg.url # ""

getSupabaseClient(cfg) == cfg.url # "" /\ cfg.key # ""

\* Settings as it mounts: useState(''), useState(''), useState('idle'); its
\* mount effect has not run yet
FreshSettings ==
    [sbUrl |-> "", sbKey |-> "", connectionStatus |-> "idle", effectRan |-> FALSE]

\* the selected client of the report filter when it is 'ALL'
ALL == 0

\* the first and the last day of the current month, as day numbers
firstDay == 1

lastDay == 2

\* Reports as it mounts: useState(firstDay), useState(lastDay),
\* useState('ALL'), useState('ALL')
FreshReport ==
    [startDate |-> firstDay, endDate |-> lastDay, selectedClientId |-> ALL,
     methodFilter |-> "ALL"]

\* a.localeCompare(b) for two names: negative, zero or positive
localeCompare(a, b) ==
    (CHOOSE i \in DOMAIN Alphabet : Alphabet[i] = a)
    - (CHOOSE i \in DOMAIN Alphabet : Alphabet[i] = b)

RECURSIVE SortByName(_)
\* arr.sort((a, b) => a.name.localeCompare(b.name)): a stable sort
SortByName(items) ==
    IF items = <<>> THEN <<>>
    ELSE LET last == items[Len(items)]
             sorted == SortByName(SubSeq(items, 1, Len(items) - 1))
         IN  SelectSeq(sorted, LAMBDA x : localeCompare(x.name, last.name) <= 0)
             \o <<last>>
             \o SelectSeq(sorted, LAMBDA x : localeCompare(x.name, last.name) > 0)

\* Reports.clients: the memo that runs as Reports renders sorts the store's
\* clients array itself and returns it
Rendered(view, ledger) ==
    IF view = "REPORTS"
    THEN [ledger EXCEPT !.clients = SortByName(@)]
    ELSE ledger

(***************************************************************************)
(* The remote backend: what each request of dataService.ts does to a table *)
(* when the backend accepts it.                                            *)
(***************************************************************************)
RECURSIVE Upsert(_, _)
\* supabase.from(t).upsert(items): replace the row with the same id, else add it
Upsert(rows, items) ==
    IF items = <<>> THEN rows
    ELSE Upsert(IF Head(items).id \in Ids(rows)
                THEN ReplaceById(rows, Head(items))
                ELSE Append(rows, Head(items)),
                Tail(items))

\* insert([item]) / update(updates).eq('id', id) / delete().eq('id', id)
CloudApply(op, arg, tables) ==
    CASE op \in {"addClient", "addPayment", "addExpense"} ->
            [tables EXCEPT ![TableOf(op)] = Append(@, arg)]
      [] op \in {"updateClient", "updatePayment"} ->
            [tables EXCEPT ![TableOf(op)] = ReplaceById(@, arg)]
      [] op \in {"deletePayment", "deleteExpense"} ->
            [tables EXCEPT ![TableOf(op)] = RemoveById(@, arg.id)]

(***************************************************************************)
(* dataService.ts, local branch.                                           *)
(***************************************************************************)
\* stored ? JSON.parse(stored) : DEFAULT_DATA
getLocalData(blob, defaults) == IF blob.present THEN blob.value ELSE defaults

\* the local branch of a mutation reads x.id of every element it maps or
\* filters: a null element raises a TypeError
LocalThrows(op, src) ==
    CASE op = "updateClient" -> HasNull(src.clients)
      [] op \in {"updatePayment", "deletePayment"} -> HasNull(src.payments)
      [] op = "deleteExpense" -> HasNull(src.expenses)
      [] OTHER -> FALSE

\* data.clients.push(client) / data.clients = data.clients.map(...) / filter
LocalApply(op, arg, src) ==
    CASE op \in {"addClient", "addPayment", "addExpense"} ->
            [src EXCEPT ![TableOf(op)] = Append(@, arg)]
      [] op \in {"updateClient", "updatePayment"} ->
            [src EXCEPT ![TableOf(op)] = ReplaceById(@, arg)]
      [] op \in {"deletePayment", "deleteExpense"} ->
            [src EXCEPT ![TableOf(op)] = RemoveById(@, arg.id)]

\* .eq('id', id) / x.id === item.id found a row of the table an update is for
KnownTo(op, arg, tables) ==
    op \in {"updateClient", "updatePayment"}
    => arg.id \in Ids(tables[TableOf(op)])

\* isActive: c.isActive !== false
NormalizeClientTruthy(c) ==
    [c EXCEPT !.isActive = IF @ = "true" THEN "true" ELSE "false"]

NormalizeClient(c) ==
    [c EXCEPT !.isActive = IF @ = "false" THEN "false" ELSE "true"]

NormalizeClients(seq) == [i \in DOMAIN seq |-> NormalizeClient(seq[i])]

(***************************************************************************)
(* Async flows.  A call record is one invocation of an App.tsx handler:    *)
(*   pc       where the flow is suspended ("done" when it has returned)    *)
(*   resp     the answer of the request it awaits: "none", "ok", "error"   *)
(*   anyErr   some request of the flow was answered with an error          *)
(*   result   what the adapter call came to: "pending", "ok", "error"      *)
(*   prevData the handler's snapshot (mutations)                           *)
(*   before   the Ledger Store when the handler was invoked                *)
(*   alone    no other flow was in flight at any time during this one      *)
(*   sel/rows the three selects of fetchData and the rows they returned    *)
(*   known    the backend held a row with the id an update was sent for    *)
(*   rank     the position of this flow in the order the flows returned    *)
(***************************************************************************)
NoSelects == [t \in Collections |-> "none"]

PendingSelects == [t \in Collections |-> "pending"]

InFlight(c) == c.pc # "done"

Idle(cs) == \A i \in DOMAIN cs : ~InFlight(cs[i])

\* a flow that starts while others are in flight overlaps each of them
Overlap(cs) ==
    [i \in DOMAIN cs |-> IF InFlight(cs[i]) THEN [cs[i] EXCEPT !.alone = FALSE]
                         ELSE cs[i]]

NewCall(cs, op, arg, remote, pc, ledger) ==
    [n |-> Len(cs) + 1, op |-> op, arg |-> arg, remote |-> remote, pc |-> pc,
     resp |-> "none", result |-> "pending", anyErr |-> FALSE,
     sel |-> NoSelects, rows |-> EmptyLedger,
     before |-> ledger, prevData |-> ledger, alone |-> Idle(cs),
     fellBack |-> FALSE, threw |-> FALSE, known |-> TRUE, rank |-> 0]

\* the flow returns: it is the next one in the order of returning
Return(cs, c, result) ==
    [c EXCEPT !.pc = "done", !.result = result,
              !.rank = 1 + Cardinality({j \in DOMAIN cs : ~InFlight(cs[j])})]

\* App.tsx render: the views (and their handlers) exist only past these returns
AppRendered ==
    isInitialized /\ ~hasConnectionError /\ currentUser # NoUser

\* the add / edit / delete controls of the views are rendered for admins only
CanEdit == AppRendered /\ currentUser.role = "ADMIN"

(***************************************************************************)
(* A mutation handler of App.tsx (addClient .. deleteExpense) up to its    *)
(* await: snapshot, optimistic update, adapter call.  On the local backend *)
(* the adapter call completes at once and the handler runs to its end.     *)
(***************************************************************************)
Mutate(op, arg) ==
    LET next == Optimistic(op, arg, data)
        prevData == Snapshot(data, next)
        remote == getSupabaseClient(sbConfig)
        src == getLocalData(localBlob, DEFAULT_DATA)
        call == [NewCall(calls, op, arg, remote, "persist", data)
                    EXCEPT !.prevData = prevData]
    IN  /\ CanEdit
        /\ Len(calls) < MaxMutations
        /\ IF remote
           THEN /\ data' = next
                /\ calls' = Append(Overlap(calls), call)
                /\ UNCHANGED <<localBlob, DEFAULT_DATA, alerts>>
           ELSE IF LocalThrows(op, src)
           THEN /\ data' = Rollback(op, next, prevData)
                /\ alerts' = alerts \cup {<<call.n, "error">>}
                /\ calls' = Append(Overlap(calls), Return(calls, call, "error"))
                /\ UNCHANGED <<localBlob, DEFAULT_DATA>>
           ELSE /\ data' = next
                /\ localBlob' = Blob(LocalApply(op, arg, src))
                /\ DEFAULT_DATA' = IF localBlob.present THEN DEFAULT_DATA
                                   ELSE LocalApply(op, arg, src)
                /\ calls' = Append(Overlap(calls),
                                   Return(calls, [call EXCEPT !.known =
                                                     KnownTo(op, arg, src)], "ok"))
                /\ UNCHANGED alerts
        /\ UNCHANGED <<hasConnectionError, isInitialized, currentUser, currentView,
                       storedUser, sbConfig, cloud, settings, report>>

\* crypto.randomUUID(): an id no record carries yet
FreshId == 10 + Len(calls) + 1

addClient ==
    Mutate("addClient", Client(FreshId, 100))

updateClient ==
    \E id \in Ids(data.clients) : Mutate("updateClient", Client(id, 250))

addPayment ==
    \E cid \in Ids(data.clients) :
        Mutate("addPayment", Payment(FreshId, cid, 40, "RECEIVED"))

updatePayment ==
    \E i \in DOMAIN data.payments :
        Mutate("updatePayment", [data.payments[i] EXCEPT !.amount = 70])

deletePayment ==
    \E id \in Ids(data.payments) : Mutate("deletePayment", [id |-> id])

addExpense ==
    Mutate("addExpense", Expense(FreshId, 30))

deleteExpense ==
    \E id \in Ids(data.expenses) : Mutate("deleteExpense", [id |-> id])

\* the remote backend answers the request of a mutation: it applies it, or
\* rejects it and leaves the table as it is
CloudWrite ==
    \E i \in DOMAIN calls, ok \in BOOLEAN :
        /\ calls[i].op \in Mutations
        /\ calls[i].pc = "persist"
        /\ calls[i].resp = "none"
        /\ cloud' = IF ok THEN CloudApply(calls[i].op, calls[i].arg, cloud) ELSE cloud
        /\ calls' = [calls EXCEPT ![i].resp = IF ok THEN "ok" ELSE "error",
                                  ![i].known = KnownTo(calls[i].op, calls[i].arg, cloud)]
        /\ UNCHANGED <<appVars, storageVars, alerts, settings, report>>

\* the handler resumes after its await: nothing on success; alert and
\* setData(prevData) in the catch block
MutationSettled ==
    \E i \in DOMAIN calls :
        /\ calls[i].op \in Mutations
        /\ calls[i].pc = "persist"
        /\ calls[i].resp # "none"
        /\ IF calls[i].resp = "ok"
           THEN /\ calls' = [calls EXCEPT ![i] = Return(calls, @, "ok")]
                /\ UNCHANGED <<data, alerts>>
           ELSE /\ calls' = [calls EXCEPT ![i] = Return(calls, @, "error")]
                /\ alerts' = alerts \cup {<<i, "error">>}
                /\ data' = Rollback(calls[i].op, data, calls[i].prevData)
        /\ UNCHANGED <<hasConnectionError, isInitialized, currentUser, currentView,
                       storageVars, cloud, settings, report>>

(***************************************************************************)
(* The mutation specification: the application after its initial load,     *)
(* an admin logged in, on the remote or on the local backend.              *)
(***************************************************************************)
SeedLedger ==
    [clients |-> <<Client(1, 100)>>,
     payments |-> <<Payment(1, 1, 40, "RECEIVED")>>,
     expenses |-> <<Expense(1, 30)>>]

MutInit ==
    /\ data \in {EmptyLedger, SeedLedger}
    /\ sbConfig \in {NoConfig, CloudConfig}
    /\ cloud = IF getSupabaseClient(sbConfig) THEN data ELSE EmptyLedger
    /\ localBlob \in IF getSupabaseClient(sbConfig) THEN {NoBlob}
                     ELSE IF data = EmptyLedger
                     THEN {NoBlob, Blob(data), Blob(NullClientLedger)}
                     ELSE {Blob(data)}
    /\ DEFAULT_DATA = EmptyLedger
    /\ hasConnectionError = FALSE
    /\ isInitialized = TRUE
    /\ currentUser = AdminUser
    /\ storedUser = AdminUser
    /\ currentView = "CLIENTS"
    /\ calls = <<>>
    /\ alerts = {}
    /\ settings = FreshSettings
    /\ report = FreshReport

MutNext ==
    \/ addClient
    \/ updateClient
    \/ addPayment
    \/ updatePayment
    \/ deletePayment
    \/ addExpense
    \/ deleteExpense
    \/ CloudWrite
    \/ MutationSettled

MutSpec == MutInit /\ [][MutNext]_vars

(***************************************************************************)
(* dataService.fetchData and App.loadData.                                 *)
(***************************************************************************)
\* the local branch (and the catch block) of fetchData: read the blob or the
\* default object, normalise its clients in place, return it; a null client
\* makes the normalising map throw
LocalFetch(blob, defaults) ==
    LET src == getLocalData(blob, defaults)
    IN  IF HasNull(src.clients)
        THEN [threw |-> TRUE, value |-> EmptyLedger, defaults |-> defaults]
        ELSE LET local == [src EXCEPT !.clients = NormalizeClients(@)]
             IN  [threw |-> FALSE, value |-> local,
                  defaults |-> IF blob.present THEN defaults ELSE local]

\* the try block of fetchData once the three selects have answered without error
RemoteFetch(rows, defaults) ==
    [threw |-> FALSE,
     value |-> [clients |-> NormalizeClients(rows.clients),
                payments |-> rows.payments,
                expenses |-> rows.expenses],
     defaults |-> defaults]

\* if (clients.error) throw ...; if (payments.error) throw ...; if (expenses.error) throw ...
SomeSelectFailed(sel) == \E t \in Collections : sel[t] = "error"

\* loadData once fetchData has returned or thrown (call c, at place i of cs);
\* initApp sets isInitialized after it
FinishLoad(cs, i, c, res) ==
    /\ data' = IF res.threw THEN data ELSE res.value
    /\ hasConnectionError' = res.threw
    /\ DEFAULT_DATA' = res.defaults
    /\ isInitialized' = (isInitialized \/ c.op = "initApp")
    /\ calls' = [cs EXCEPT ![i] =
                    Return(cs, [c EXCEPT !.threw = res.threw],
                           IF c.op = "importData" THEN c.result
                           ELSE IF res.threw THEN "error" ELSE "ok")]

\* loadData up to the await of fetchData: setHasConnectionError(false), then
\* the backend is chosen from the stored configuration cfg; the local branch
\* returns without suspending
StartLoadWith(cfg, cs, i, c) ==
    IF getSupabaseClient(cfg)
    THEN /\ hasConnectionError' = FALSE
         /\ calls' = [cs EXCEPT ![i] = [c EXCEPT !.pc = "load",
                                                 !.sel = PendingSelects]]
         /\ UNCHANGED <<data, DEFAULT_DATA, isInitialized>>
    ELSE FinishLoad(cs, i, c, LocalFetch(localBlob, DEFAULT_DATA))

StartLoad(cs, i, c) == StartLoadWith(sbConfig, cs, i, c)

\* a new flow, after the flows cs, that is a load from its first line
LoadCallWith(cfg, cs, op) ==
    LET c == NewCall(cs, op, [id |-> 0], getSupabaseClient(cfg), "start", data)
    IN  StartLoadWith(cfg, Append(Overlap(cs), c), c.n, c)

LoadCall(op) == LoadCallWith(sbConfig, calls, op)

\* useEffect(() => { initApp() }, []): restore the user, load, setIsInitialized
initApp ==
    /\ ~isInitialized
    /\ calls = <<>>
    /\ currentUser' = storedUser
    /\ LoadCall("initApp")
    /\ UNCHANGED <<currentView, storedUser, sbConfig, localBlob, cloud, alerts, settings, report>>

\* the operations issued so far: the flows started and the files refused
UserOps ==
    Len(calls) + (IF <<0, "Invalid file format.">> \in alerts THEN 1 ELSE 0)

\* the connection-error screen: "Retry Connection"
RetryConnection ==
    /\ isInitialized
    /\ hasConnectionError
    /\ UserOps < 1 + MaxBulkOps
    /\ LoadCall("loadData")
    /\ UNCHANGED <<currentUser, currentView, storedUser, sbConfig, localBlob,
                   cloud, alerts, settings, report>>

\* the connection-error screen: "Check Settings"
CheckSettings ==
    /\ isInitialized
    /\ hasConnectionError
    /\ hasConnectionError' = FALSE
    /\ currentUser' = AdminUser
    /\ currentView' = "SETTINGS"
    /\ settings' = FreshSettings
    /\ report' = FreshReport
    /\ UNCHANGED <<data, isInitialized, storageVars, cloud, calls, alerts>>

\* the remote backend answers one of the three selects of a fetchData
CloudSelect ==
    \E i \in DOMAIN calls, t \in Collections, ok \in BOOLEAN :
        /\ calls[i].pc = "load"
        /\ calls[i].sel[t] = "pending"
        /\ calls' = [calls EXCEPT ![i].sel[t] = IF ok THEN "ok" ELSE "error",
                                  ![i].rows[t] = IF ok THEN cloud[t] ELSE @]
        /\ UNCHANGED <<appVars, storageVars, cloud, alerts, settings, report>>

\* Promise.all has resolved: fetchData returns the remote rows, or alerts the
\* warning and falls back to the local data; loadData then stores the result
LoadSettled ==
    \E i \in DOMAIN calls :
        /\ calls[i].pc = "load"
        /\ \A t \in Collections : calls[i].sel[t] # "pending"
        /\ IF SomeSelectFailed(calls[i].sel)
           THEN /\ alerts' = alerts \cup {<<i, "Connection Warning">>}
                /\ FinishLoad(calls, i, [calls[i] EXCEPT !.fellBack = TRUE],
                              LocalFetch(localBlob, DEFAULT_DATA))
           ELSE /\ UNCHANGED alerts
                /\ FinishLoad(calls, i, calls[i],
                              RemoteFetch(calls[i].rows, DEFAULT_DATA))
        /\ UNCHANGED <<currentUser, currentView, storedUser, sbConfig, localBlob, cloud, settings, report>>

(***************************************************************************)
(* Sidebar and Settings: navigation, import and clear.                     *)
(***************************************************************************)
Views == {"DASHBOARD", "CLIENTS", "PAYMENTS", "EXPENSES", "REPORTS", "SETTINGS"}

\* Sidebar: the Settings item exists for admins only
NavItems == IF currentUser.role = "ADMIN" THEN Views ELSE Views \ {"SETTINGS"}

handleNavClick(v) ==
    /\ AppRendered
    /\ v \in NavItems
    /\ currentView' = v
    /\ settings' = IF v = currentView THEN settings ELSE FreshSettings
    /\ report' = IF v = currentView THEN report ELSE FreshReport
    /\ data' = Rendered(v, data)
    /\ UNCHANGED <<hasConnectionError, isInitialized, currentUser,
                   storageVars, cloud, calls, alerts>>

\* renderContent: case ViewState.SETTINGS
SettingsRendered ==
    AppRendered /\ currentView = "SETTINGS" /\ currentUser.role = "ADMIN"

\* the collection importData upserts after `t` ("start": before the first):
\* clients, payments, expenses, each only if the payload has rows for it
NextUpsertReversed(payload, t) ==
    LET later == CASE t = "start" -> <<"expenses", "payments", "clients">>
                   [] t = "expenses" -> <<"payments", "clients">>
                   [] t = "payments" -> <<"clients">>
                   [] t = "clients" -> <<>>
        todo == SelectSeq(later, LAMBDA x : Len(payload[x]) > 0)
    IN  IF todo = <<>> THEN "load" ELSE Head(todo)

NextUpsert(payload, t) ==
    LET later == CASE t = "start" -> <<"clients", "payments", "expenses">>
                   [] t = "clients" -> <<"payments", "expenses">>
                   [] t = "payments" -> <<"expenses">>
                   [] t = "expenses" -> <<>>
        todo == SelectSeq(later, LAMBDA x : Len(payload[x]) > 0)
    IN  IF todo = <<>> THEN "load" ELSE Head(todo)

\* a field of a parsed JSON file: an array of rows, or anything else
\* (undefined, an object, a string)
JsonArray(rows) == [isArray |-> TRUE, rows |-> rows]

NotAnArray == [isArray |-> FALSE, rows |-> <<>>]

\* JSON.parse of a file that holds the three collections of a ledger
ParsedFile(ledger) ==
    [clients |-> JsonArray(ledger.clients),
     payments |-> JsonArray(ledger.payments),
     expenses |-> JsonArray(ledger.expenses)]

\* the AppData that onImportData(json) receives
PayloadOf(json) ==
    [clients |-> json.clients.rows,
     payments |-> json.payments.rows,
     expenses |-> json.expenses.rows]

\* Array.isArray(json.clients) && Array.isArray(json.payments) && Array.isArray(json.expenses)
ValidPayloadClientsOnly(json) == json.clients.isArray

ValidPayload(json) == \A t \in Collections : json[t].isArray

\* Settings.handleFileChange with a parsed file: a file that lacks one of the
\* three arrays is refused with an alert; otherwise, confirmed by the user,
\* onImportData(json) is started and the success alert follows at once.
\* App.importData runs to its first suspension.
handleFileChange(json) ==
    LET remote == getSupabaseClient(sbConfig)
        payload == PayloadOf(json)
        first == NextUpsert(payload, "start")
        c == NewCall(calls, "importData", payload, remote, "start", data)
        cs == Append(Overlap(calls), c)
    IN  /\ SettingsRendered
        /\ UserOps < 1 + MaxBulkOps
        /\ IF ~ValidPayload(json)
           THEN /\ alerts' = alerts \cup {<<0, "Invalid file format.">>}
                /\ UNCHANGED <<data, hasConnectionError, isInitialized,
                               localBlob, DEFAULT_DATA, calls>>
           ELSE /\ alerts' = alerts \cup {<<c.n, "Data imported successfully!">>}
                /\ IF remote /\ first # "load"
                   THEN /\ calls' = [cs EXCEPT ![c.n].pc = first]
                        /\ UNCHANGED <<data, hasConnectionError, isInitialized,
                                       localBlob, DEFAULT_DATA>>
                   ELSE IF remote
                   THEN /\ StartLoad(cs, c.n, [c EXCEPT !.result = "ok"])
                        /\ UNCHANGED localBlob
                   ELSE /\ localBlob' = Blob(payload)
                        /\ FinishLoad(cs, c.n, [c EXCEPT !.result = "ok"],
                                      LocalFetch(Blob(payload), DEFAULT_DATA))
        /\ UNCHANGED <<currentUser, currentView, storedUser, sbConfig, cloud, settings, report>>

\* the remote backend answers an upsert of importData; it rejects rows that
\* are no records
CloudUpsert ==
    \E i \in DOMAIN calls, ok \in BOOLEAN :
        /\ calls[i].op = "importData"
        /\ calls[i].pc \in Collections
        /\ calls[i].resp = "none"
        /\ ok => ~HasNull(calls[i].arg[calls[i].pc])
        /\ cloud' = IF ok
                    THEN [cloud EXCEPT ![calls[i].pc] =
                             Upsert(@, calls[i].arg[calls[i].pc])]
                    ELSE cloud
        /\ calls' = [calls EXCEPT ![i].resp = IF ok THEN "ok" ELSE "error"]
        /\ UNCHANGED <<appVars, storageVars, alerts, settings, report>>

\* const { error } = await supabase.from(t).upsert(rows); if (error) throw error
UpsertErrorIgnored(resp) == FALSE

UpsertFailed(resp) == resp = "error"

\* importData resumes after an upsert: throw on error (App alerts "Import
\* failed"), else the next upsert, else loadData
ImportResumed ==
    \E i \in DOMAIN calls :
        LET c == [calls[i] EXCEPT !.anyErr = @ \/ calls[i].resp = "error"]
            next == NextUpsert(c.arg, c.pc)
        IN  /\ c.op = "importData"
            /\ c.pc \in Collections
            /\ c.resp # "none"
            /\ IF UpsertFailed(c.resp)
               THEN /\ alerts' = alerts \cup {<<i, "Import failed">>}
                    /\ calls' = [calls EXCEPT ![i] = Return(calls, c, "error")]
                    /\ UNCHANGED <<data, hasConnectionError, isInitialized, DEFAULT_DATA>>
               ELSE IF next # "load"
               THEN /\ calls' = [calls EXCEPT ![i] = [c EXCEPT !.pc = next,
                                                                !.resp = "none"]]
                    /\ UNCHANGED <<data, hasConnectionError, isInitialized,
                                   DEFAULT_DATA, alerts>>
               ELSE /\ StartLoad(calls, i, [c EXCEPT !.result = "ok", !.resp = "none"])
                    /\ UNCHANGED alerts
            /\ UNCHANGED <<currentUser, currentView, storedUser, sbConfig, localBlob, cloud, settings, report>>

\* the table clearData deletes after `t`: payments, expenses, clients
NextDelete(t) ==
    CASE t = "payments" -> "expenses"
      [] t = "expenses" -> "clients"
      [] t = "clients" -> "done"

\* Settings.handleClearData, confirmed: App.clearData to its first suspension
handleClearData ==
    LET remote == getSupabaseClient(sbConfig)
        c == NewCall(calls, "clearData", [id |-> 0], remote, "payments", data)
        cs == Append(Overlap(calls), c)
    IN  /\ SettingsRendered
        /\ UserOps < 1 + MaxBulkOps
        /\ IF remote
           THEN /\ calls' = cs
                /\ UNCHANGED <<data, localBlob>>
           ELSE /\ localBlob' = NoBlob
                /\ data' = EmptyLedger
                /\ calls' = [cs EXCEPT ![c.n] = Return(cs, c, "ok")]
        /\ UNCHANGED <<hasConnectionError, isInitialized, currentUser, currentView,
                       storedUser, sbConfig, DEFAULT_DATA, cloud, alerts, settings, report>>

\* the remote backend answers a delete-all of clearData
CloudDeleteAll ==
    \E i \in DOMAIN calls, ok \in BOOLEAN :
        /\ calls[i].op = "clearData"
        /\ calls[i].pc \in Collections
        /\ calls[i].resp = "none"
        /\ cloud' = IF ok THEN [cloud EXCEPT ![calls[i].pc] = <<>>] ELSE cloud
        /\ calls' = [calls EXCEPT ![i].resp = IF ok THEN "ok" ELSE "error"]
        /\ UNCHANGED <<appVars, storageVars, alerts, settings, report>>

\* if (e1 || e2 || e3) throw new Error("Failed to clear some cloud data. Check RLS.")
\* earlier: one of the deletes answered before had an error; last: the answer
\* of the third delete
ClearFailedLastOnly(earlier, last) == last = "error"

ClearFailed(earlier, last) == earlier \/ last = "error"

\* clearData resumes after a delete: the error is kept and the next delete is
\* sent; after the third, throw if any failed (App alerts "Clear failed"),
\* else setData(empty)
ClearResumed ==
    \E i \in DOMAIN calls :
        LET c == [calls[i] EXCEPT !.anyErr = @ \/ calls[i].resp = "error"]
            next == NextDelete(c.pc)
        IN  /\ c.op = "clearData"
            /\ c.pc \in Collections
            /\ c.resp # "none"
            /\ IF next # "done"
               THEN /\ calls' = [calls EXCEPT ![i] = [c EXCEPT !.pc = next,
                                                                !.resp = "none"]]
                    /\ UNCHANGED <<data, alerts>>
               ELSE IF ClearFailed(calls[i].anyErr, c.resp)
               THEN /\ calls' = [calls EXCEPT ![i] = Return(calls, c, "error")]
                    /\ alerts' = alerts \cup {<<i, "Clear failed">>}
                    /\ UNCHANGED data
               ELSE /\ calls' = [calls EXCEPT ![i] = Return(calls, c, "ok")]
                    /\ data' = EmptyLedger
                    /\ UNCHANGED alerts
            /\ UNCHANGED <<hasConnectionError, isInitialized, currentUser, currentView,
                           storageVars, cloud, settings, report>>

(***************************************************************************)
(* The bulk specification: the application from its construction, with an  *)
(* admin session in storage; imports, clears and loads.                    *)
(***************************************************************************)
\* what the local storage of an earlier session holds
LocalSeed ==
    [clients |-> <<Client(3, 100)>>, payments |-> <<>>, expenses |-> <<>>]

\* an import file with rows for all three collections
FullPayload ==
    [clients |-> <<Client(1, 250)>>,
     payments |-> <<Payment(2, 1, 70, "REFUND")>>,
     expenses |-> <<Expense(2, 30)>>]

Payloads == {EmptyLedger, FullPayload, NullClientLedger}

\* a file whose payments field is missing
MissingPaymentsFile == [ParsedFile(FullPayload) EXCEPT !.payments = NotAnArray]

\* the files a user picks for import
ImportFiles == {ParsedFile(p) : p \in Payloads} \cup {MissingPaymentsFile}

\* the view the bulk specification navigates to
BulkViews == {"SETTINGS"}

BulkInit ==
    /\ data = EmptyLedger
    /\ hasConnectionError = FALSE
    /\ isInitialized = FALSE
    /\ currentUser = NoUser
    /\ currentView = "DASHBOARD"
    /\ storedUser = AdminUser
    /\ sbConfig \in {NoConfig, CloudConfig}
    /\ localBlob \in {NoBlob, Blob(LocalSeed), Blob(NullClientLedger)}
    /\ DEFAULT_DATA = EmptyLedger
    /\ cloud \in IF getSupabaseClient(sbConfig) THEN {EmptyLedger, SeedLedger}
                 ELSE {EmptyLedger}
    /\ calls = <<>>
    /\ alerts = {}
    /\ settings = FreshSettings
    /\ report = FreshReport

BulkNext ==
    \/ initApp
    \/ RetryConnection
    \/ CheckSettings
    \/ \E v \in BulkViews : handleNavClick(v)
    \/ \E json \in ImportFiles : handleFileChange(json)
    \/ handleClearData
    \/ CloudSelect
    \/ LoadSettled
    \/ CloudUpsert
    \/ ImportResumed
    \/ CloudDeleteAll
    \/ ClearResumed

BulkSpec == BulkInit /\ [][BulkNext]_vars

(***************************************************************************)
(* Reference semantics of the mutations, for comparison with the handlers: *)
(* add appends, update replaces the item with the same id, delete removes  *)
(* the item with that id.                                                  *)
(***************************************************************************)
RECURSIVE RefReplace(_, _)
RefReplace(seq, item) ==
    IF seq = <<>> THEN <<>>
    ELSE <<IF Head(seq).id = item.id THEN item ELSE Head(seq)>>
         \o RefReplace(Tail(seq), item)

RECURSIVE RefRemove(_, _)
RefRemove(seq, id) ==
    IF seq = <<>> THEN <<>>
    ELSE (IF Head(seq).id = id THEN <<>> ELSE <<Head(seq)>>)
         \o RefRemove(Tail(seq), id)

RefApply(ledger, op, arg) ==
    LET t == TableOf(op)
    IN  IF op \in {"addClient", "addPayment", "addExpense"}
        THEN [ledger EXCEPT ![t] = @ \o <<arg>>]
        ELSE IF op \in {"updateClient", "updatePayment"}
        THEN [ledger EXCEPT ![t] = RefReplace(@, arg)]
        ELSE [ledger EXCEPT ![t] = RefRemove(@, arg.id)]

RECURSIVE RefApplyAll(_, _, _)
\* the first k calls of cs applied one after another, in issue order
RefApplyAll(ledger, cs, k) ==
    IF k = 0 THEN ledger
    ELSE RefApply(RefApplyAll(ledger, cs, k - 1), cs[k].op, cs[k].arg)

AllReturned == \A i \in DOMAIN calls : ~InFlight(calls[i])

IsLast(i) == i = Len(calls)

\* the flow that returned last of all
ReturnedLast(i) == AllReturned /\ calls[i].rank = Len(calls)

C2_SequentialApply ==
    (/\ calls # <<>>
     /\ \A i \in DOMAIN calls : calls[i].pc = "done" /\ calls[i].result = "ok")
    => data = RefApplyAll(calls[1].before, calls, Len(calls))

\* two overlapping mutations, both acknowledged, the second returning first
C2_Witness ==
    /\ Len(calls) = 2
    /\ \A i \in DOMAIN calls : calls[i].pc = "done" /\ calls[i].result = "ok"
    /\ calls[1].rank = 2
    /\ calls[2].rank = 1
    /\ calls[1].op = "updateClient"
    /\ calls[2].op = "deletePayment"
    /\ data # calls[1].before

(***************************************************************************)
(* C3.  Mutations are not serialized.  When a failed mutation A is the     *)
(* last flow to return, the Ledger Store is the snapshot A captured, the   *)
(* Ledger Store as it was before A: a change made by a mutation B issued   *)
(* while A was in flight is gone, also when the backend accepted B.        *)
(***************************************************************************)
C3_RollbackClobbers ==
    \A a \in DOMAIN calls :
        (/\ calls[a].op \in Mutations
         /\ calls[a].result = "error"
         /\ ReturnedLast(a))
        => data = calls[a].before

\* B (an add) acknowledged by the backend and absent from the Ledger Store
C3_Witness ==
    \E a, b \in DOMAIN calls :
        /\ a < b
        /\ calls[a].result = "error"
        /\ ReturnedLast(a)
        /\ calls[b].op = "addPayment"
        /\ calls[b].remote
        /\ calls[b].result = "ok"
        /\ calls[b].arg.id \in Ids(cloud.payments)
        /\ calls[b].arg.id \notin Ids(data.payments)

\* the rows a fetchData that reads the backend of call c now would return
BackendContent(c) ==
    IF c.remote THEN RemoteFetch(cloud, DEFAULT_DATA).value
    ELSE getLocalData(localBlob, DEFAULT_DATA)

(***************************************************************************)
(* C4.  An import, alone, one of whose upserts was answered with an error: *)
(* the Ledger Store is exactly as it was before the import was requested   *)
(* and "Import failed" has been alerted.                                   *)
(***************************************************************************)
C4_FailedImportLeavesStore ==
    \A i \in DOMAIN calls :
        (/\ calls[i].op = "importData"
         /\ calls[i].alone
         /\ IsLast(i)
         /\ calls[i].anyErr
         /\ calls[i].pc = "done")
        => /\ data = calls[i].before
           /\ <<i, "Import failed">> \in alerts

\* the payments upsert fails after the clients upsert was committed, on a
\* non-empty Ledger Store
C4_Witness ==
    \E i \in DOMAIN calls :
        /\ calls[i].op = "importData"
        /\ calls[i].alone
        /\ IsLast(i)
        /\ calls[i].anyErr
        /\ calls[i].pc = "done"
        /\ calls[i].arg = FullPayload
        /\ Client(1, 250) \in {cloud.clients[k] : k \in DOMAIN cloud.clients}
        /\ cloud.payments # FullPayload.payments
        /\ data = SeedLedger

(***************************************************************************)
(* C5.  Once a successful import of records, alone, has finished, the      *)
(* Ledger Store equals the content held by the backend that received the   *)
(* import.                                                                 *)
(***************************************************************************)
C5_StoreEqualsBackend ==
    \A i \in DOMAIN calls :
        (/\ calls[i].op = "importData"
         /\ calls[i].alone
         /\ IsLast(i)
         /\ ~HasNull(calls[i].arg.clients)
         /\ calls[i].result = "ok"
         /\ calls[i].pc = "done")
        => data = BackendContent(calls[i])

(***************************************************************************)
(* C6.  An import of three empty arrays, alone, whose load was served by   *)
(* the backend it wrote to: it succeeds and the Ledger Store is empty,     *)
(* on the local and on the remote backend.                                 *)
(***************************************************************************)
C6_EmptyImportEmptiesStore ==
    \A i \in DOMAIN calls :
        (/\ calls[i].op = "importData"
         /\ calls[i].arg = EmptyLedger
         /\ calls[i].alone
         /\ IsLast(i)
         /\ ~calls[i].fellBack
         /\ calls[i].pc = "done")
        => /\ calls[i].result = "ok"
           /\ data = EmptyLedger

(***************************************************************************)
(* C7.  clearData, alone: the Ledger Store is untouched while the adapter  *)
(* call is in flight; when no delete failed the Ledger Store ends empty;   *)
(* when a delete failed the Ledger Store ends as it was before and "Clear  *)
(* failed" has been alerted.                                               *)
(***************************************************************************)
C7_ClearAdapterFirst ==
    \A i \in DOMAIN calls :
        (/\ calls[i].op = "clearData"
         /\ calls[i].alone
         /\ IsLast(i))
        => /\ InFlight(calls[i]) => data = calls[i].before
           /\ (~InFlight(calls[i]) /\ ~calls[i].anyErr) => data = EmptyLedger
           /\ (~InFlight(calls[i]) /\ calls[i].anyErr)
                 => /\ data = calls[i].before
                    /\ <<i, "Clear failed">> \in alerts

\* a remote clear on a non-empty Ledger Store whose first delete failed and
\* whose last delete succeeded
C7_Witness ==
    \E i \in DOMAIN calls :
        /\ calls[i].op = "clearData"
        /\ calls[i].alone
        /\ IsLast(i)
        /\ calls[i].remote
        /\ calls[i].pc = "done"
        /\ calls[i].anyErr
        /\ calls[i].resp = "ok"
        /\ cloud.payments # <<>>
        /\ cloud.clients = <<>>
        /\ data = SeedLedger

(***************************************************************************)
(* C8.  On the remote backend, whenever at least one of the three fetches  *)
(* returned an error, fetchData raised an error and returned no ledger.    *)
(***************************************************************************)
C8_FetchFailsAsAWhole ==
    \A i \in DOMAIN calls :
        (/\ calls[i].pc = "done"
         /\ SomeSelectFailed(calls[i].sel))
        => calls[i].threw

(***************************************************************************)
(* C9.  When a data load ends whose fetch found the remote backend         *)
(* unreachable (one of the three selects failed), the application is in    *)
(* the connection-error state and renders no ledger view.                  *)
(***************************************************************************)
C9_UnreachableBackendBlocksUI ==
    [][\A i \in DOMAIN calls :
          (/\ calls[i].pc = "load"
           /\ SomeSelectFailed(calls[i].sel)
           /\ calls'[i].pc = "done")
          => /\ hasConnectionError'
             /\ ~AppRendered']_vars

(***************************************************************************)
(* C10.  An import one of whose upserts failed is never reported as a      *)
(* success: no "Data imported successfully!" is alerted for it.            *)
(***************************************************************************)
C10_FailedImportNotReportedSuccess ==
    \A i \in DOMAIN calls :
        (/\ calls[i].op = "importData"
         /\ calls[i].anyErr)
        => <<i, "Data imported successfully!">> \notin alerts

(***************************************************************************)
(* C11.  An import file in which clients, payments or expenses is not an   *)
(* array is refused as invalid: the step that handles it leaves the Ledger *)
(* Store, both backends and the list of adapter calls as they are, and     *)
(* alerts "Invalid file format.".                                          *)
(***************************************************************************)
C11_InvalidPayloadRejected ==
    [][\A json \in ImportFiles :
          ((\E t \in Collections : ~json[t].isArray) /\ handleFileChange(json))
          => /\ UNCHANGED <<data, cloud, localBlob, DEFAULT_DATA, calls>>
             /\ <<0, "Invalid file format.">> \in alerts']_vars

\* a file without payments was refused on a loaded, non-empty Ledger Store
C11_Witness ==
    /\ <<0, "Invalid file format.">> \in alerts
    /\ data # EmptyLedger
    /\ \A i \in DOMAIN calls : calls[i].op # "importData"

(***************************************************************************)
(* The fetch specification: the initial load of the application over       *)
(* stored clients whose isActive is true, false, missing or null, on the   *)
(* local and on the remote backend.                                        *)
(***************************************************************************)
\* what a stored client may hold as isActive
ActiveValues == {"true", "false", "absent", "null"}

StoredClient(id, active) == [Client(id, 100) EXCEPT !.isActive = active]

ClientsOnly(clients) == [EmptyLedger EXCEPT !.clients = clients]

FetchInit ==
    /\ data = EmptyLedger
    /\ hasConnectionError = FALSE
    /\ isInitialized = FALSE
    /\ currentUser = NoUser
    /\ currentView = "DASHBOARD"
    /\ storedUser = AdminUser
    /\ sbConfig \in {NoConfig, CloudConfig}
    /\ localBlob \in {NoBlob}
           \cup {Blob(ClientsOnly(<<StoredClient(3, a)>>)) : a \in ActiveValues}
    /\ DEFAULT_DATA = EmptyLedger
    /\ cloud \in IF getSupabaseClient(sbConfig)
                 THEN {ClientsOnly(<<StoredClient(1, a), StoredClient(2, b)>>) :
                          a, b \in ActiveValues}
                 ELSE {EmptyLedger}
    /\ calls = <<>>
    /\ alerts = {}
    /\ settings = FreshSettings
    /\ report = FreshReport

FetchNext ==
    \/ initApp
    \/ CloudSelect
    \/ LoadSettled

FetchSpec == FetchInit /\ [][FetchNext]_vars

\* the stored clients a finished fetchData of call c has read
FetchedFrom(c) ==
    IF c.remote /\ ~c.fellBack THEN cloud.clients
    ELSE IF localBlob.present THEN localBlob.value.clients
    ELSE <<>>

(***************************************************************************)
(* C12.  Every client returned by fetchData, on the remote path, on the    *)
(* fallback to local data and on the local path, has isActive false if     *)
(* the stored value is false, and true otherwise (true, missing or null);  *)
(* nothing else of the client is changed.                                  *)
(***************************************************************************)
C12_IsActiveNormalized ==
    \A i \in DOMAIN calls :
        (calls[i].pc = "done" /\ ~calls[i].threw)
        => LET stored == FetchedFrom(calls[i])
           IN  /\ Len(data.clients) = Len(stored)
               /\ \A k \in DOMAIN stored :
                     /\ data.clients[k].isActive \in {"true", "false"}
                     /\ data.clients[k].isActive = "false"
                           <=> stored[k].isActive = "false"
                     /\ data.clients[k].id = stored[k].id
                     /\ data.clients[k].totalBilled = stored[k].totalBilled

\* the fallback path returned a client stored with a null isActive as active,
\* beside a remote table that holds a false and a missing isActive
C12_Witness ==
    \E i \in DOMAIN calls :
        /\ calls[i].pc = "done"
        /\ calls[i].fellBack
        /\ localBlob = Blob(ClientsOnly(<<StoredClient(3, "null")>>))
        /\ data.clients = <<StoredClient(3, "true")>>
        /\ cloud.clients = <<StoredClient(1, "false"), StoredClient(2, "absent")>>

(***************************************************************************)
(* Settings: the connection panel.  A probe is a flow of its own: op       *)
(* "checkConnection" (the mount effect) or "handleSaveConfig", arg the URL *)
(* and key it tests, pc "probe" while testSupabaseConnection is awaited.   *)
(***************************************************************************)
\* flows started in one run of the configuration specification
MaxConfigOps == 2

\* what the user types into the two fields
Urls == {"https://other.supabase.co"}

Keys == {"anon-key"}

Probes == {"checkConnection", "handleSaveConfig"}

\* useEffect(() => { checkConnection() }, []): the fields are filled from the
\* storage; both stored: the stored configuration is probed
checkConnection ==
    LET both == sbConfig.url # "" /\ sbConfig.key # ""
        c == NewCall(calls, "checkConnection", sbConfig, TRUE, "probe", data)
    IN  /\ SettingsRendered
        /\ ~settings.effectRan
        /\ settings' =
              [sbUrl |-> IF sbConfig.url # "" THEN sbConfig.url ELSE settings.sbUrl,
               sbKey |-> IF sbConfig.key # "" THEN sbConfig.key ELSE settings.sbKey,
               connectionStatus |-> IF both THEN "verifying"
                                    ELSE settings.connectionStatus,
               effectRan |-> TRUE]
        /\ calls' = IF both THEN Append(Overlap(calls), c) ELSE calls
        /\ UNCHANGED <<appVars, storageVars, cloud, alerts, report>>

\* onChange of the Project URL field
setSbUrl(url) ==
    /\ SettingsRendered
    /\ settings.effectRan
    /\ settings' = [settings EXCEPT !.sbUrl = url]
    /\ UNCHANGED <<appVars, storageVars, cloud, calls, alerts, report>>

\* onChange of the Anon Public Key field
setSbKey(key) ==
    /\ SettingsRendered
    /\ settings.effectRan
    /\ settings' = [settings EXCEPT !.sbKey = key]
    /\ UNCHANGED <<appVars, storageVars, cloud, calls, alerts, report>>

\* Settings.handleSaveConfig up to its await; the button is disabled while a
\* probe is being verified
handleSaveConfig ==
    LET entered == [url |-> settings.sbUrl, key |-> settings.sbKey]
        c == NewCall(calls, "handleSaveConfig", entered, TRUE, "probe", data)
    IN  /\ SettingsRendered
        /\ settings.effectRan
        /\ settings.connectionStatus # "verifying"
        /\ IF settings.sbUrl = "" \/ settings.sbKey = ""
           THEN /\ alerts' = alerts \cup {<<0, "Please enter both Project URL and Anon Public Key.">>}
                /\ UNCHANGED <<calls, settings, report>>
           ELSE /\ Len(calls) < MaxConfigOps
                /\ settings' = [settings EXCEPT !.connectionStatus = "verifying"]
                /\ calls' = Append(Overlap(calls), c)
                /\ UNCHANGED alerts
        /\ UNCHANGED <<appVars, storageVars, cloud, report>>

\* the project at the probed URL answers client.from('clients').select('id').limit(1)
ProbeAnswered ==
    \E i \in DOMAIN calls, ok \in BOOLEAN :
        /\ calls[i].op \in Probes
        /\ calls[i].pc = "probe"
        /\ calls[i].resp = "none"
        /\ calls' = [calls EXCEPT ![i].resp = IF ok THEN "ok" ELSE "error"]
        /\ UNCHANGED <<appVars, storageVars, cloud, alerts, settings, report>>

\* testSupabaseConnection: if (error) throw error
ProbeErrorIgnored(resp) == FALSE

ProbeFailed(resp) == resp = "error"

\* the flow resumes after testSupabaseConnection.  checkConnection sets the
\* status.  handleSaveConfig, on success: saveSupabaseConfig of the values it
\* probed, status, alert, refreshData(); in its catch block: status, alert
ProbeResumed ==
    \E i \in DOMAIN calls :
        LET c == calls[i]
            failed == ProbeFailed(c.resp)
            returned == [calls EXCEPT ![i] =
                            Return(calls, c, IF failed THEN "error" ELSE "ok")]
        IN  /\ c.op \in Probes
            /\ c.pc = "probe"
            /\ c.resp # "none"
            /\ settings' = [settings EXCEPT !.connectionStatus =
                                IF failed THEN "error" ELSE "success"]
            /\ IF c.op = "checkConnection"
               THEN /\ calls' = returned
                    /\ UNCHANGED <<data, hasConnectionError, isInitialized,
                                   DEFAULT_DATA, sbConfig, alerts>>
               ELSE IF failed
               THEN /\ calls' = returned
                    /\ alerts' = alerts \cup {<<i, "Connection failed">>}
                    /\ UNCHANGED <<data, hasConnectionError, isInitialized,
                                   DEFAULT_DATA, sbConfig>>
               ELSE /\ sbConfig' = c.arg
                    /\ alerts' = alerts \cup {<<i, "Supabase connected successfully!">>}
                    /\ LoadCallWith(c.arg, returned, "loadData")
            /\ UNCHANGED <<currentUser, currentView, storedUser, localBlob, cloud, report>>

\* Settings.handleDisconnect, confirmed; the button exists while connected
handleDisconnect ==
    /\ SettingsRendered
    /\ settings.connectionStatus = "success"
    /\ Len(calls) < MaxConfigOps
    /\ sbConfig' = NoConfig
    /\ settings' = [settings EXCEPT !.sbUrl = "", !.sbKey = "",
                                    !.connectionStatus = "idle"]
    /\ alerts' = alerts \cup {<<0, "Supabase disconnected. Using local storage.">>}
    /\ LoadCallWith(NoConfig, calls, "loadData")
    /\ UNCHANGED <<currentUser, currentView, storedUser, localBlob, cloud, report>>

(***************************************************************************)
(* The configuration specification: an admin on the Settings view after    *)
(* the initial load; the storage holds no, a partial or a full connection  *)
(* configuration.                                                          *)
(***************************************************************************)
StoredConfigs ==
    {[url |-> u, key |-> k] : u \in {"", CloudConfig.url}, k \in {"", CloudConfig.key}}

ConfigInit ==
    /\ sbConfig \in StoredConfigs
    /\ localBlob = Blob(LocalSeed)
    /\ cloud = SeedLedger
    /\ data = IF getSupabaseClient(sbConfig) THEN SeedLedger ELSE LocalSeed
    /\ DEFAULT_DATA = EmptyLedger
    /\ hasConnectionError = FALSE
    /\ isInitialized = TRUE
    /\ currentUser = AdminUser
    /\ storedUser = AdminUser
    /\ currentView = "SETTINGS"
    /\ calls = <<>>
    /\ alerts = {}
    /\ settings = FreshSettings
    /\ report = FreshReport

ConfigNext ==
    \/ checkConnection
    \/ \E url \in Urls : setSbUrl(url)
    \/ \E key \in Keys : setSbKey(key)
    \/ handleSaveConfig
    \/ ProbeAnswered
    \/ ProbeResumed
    \/ handleDisconnect
    \/ handleClearData
    \/ addClient
    \/ CloudWrite
    \/ MutationSettled
    \/ CloudSelect
    \/ LoadSettled
    \/ CloudDeleteAll
    \/ ClearResumed

ConfigSpec == ConfigInit /\ [][ConfigNext]_vars

(***************************************************************************)
(* C13.  Every adapter call picks its backend when it is made, from the    *)
(* configuration stored at that time: it is remote if and only if both the *)
(* URL and the key are non-empty.  A call that is not remote is served by  *)
(* the local storage alone: it sends no request, leaves the remote tables  *)
(* as they are, and ends at once without an error.                         *)
(***************************************************************************)
C13_BackendChosenPerCall ==
    [][\A i \in DOMAIN calls' :
          calls'[i].op \notin Probes
          => /\ i \notin DOMAIN calls
                  => /\ calls'[i].remote
                          <=> (sbConfig'.url # "" /\ sbConfig'.key # "")
                     /\ ~calls'[i].remote => cloud' = cloud
             /\ ~calls'[i].remote
                  => /\ calls'[i].pc = "done"
                     /\ calls'[i].result = "ok"
                     /\ calls'[i].resp = "none"
                     /\ calls'[i].sel = NoSelects]_vars

\* an added client served by the local storage, then, after a configuration
\* was saved, a load served by the remote backend
C13_Witness ==
    \E i, j \in DOMAIN calls :
        /\ i < j
        /\ calls[i].op = "addClient"
        /\ ~calls[i].remote
        /\ localBlob.present
        /\ calls[i].arg.id \in Ids(localBlob.value.clients)
        /\ calls[i].arg.id \notin Ids(cloud.clients)
        /\ calls[j].op = "loadData"
        /\ calls[j].remote
        /\ calls[j].pc = "done"
        /\ data = cloud

(***************************************************************************)
(* C14.  The stored configuration is replaced by a newly entered one only  *)
(* in the step in which handleSaveConfig resumes from a probe of exactly   *)
(* that URL and key that was answered without error; when the probe was    *)
(* answered with an error the stored configuration stays as it is and the  *)
(* status is not "success" (shown as Connected).                           *)
(***************************************************************************)
C14_ConfigStoredAfterProbe ==
    [][/\ (sbConfig' # sbConfig /\ sbConfig' # NoConfig)
          => \E i \in DOMAIN calls :
                /\ calls[i].op = "handleSaveConfig"
                /\ calls[i].pc = "probe"
                /\ calls[i].resp = "ok"
                /\ calls[i].arg = sbConfig'
                /\ calls'[i].pc = "done"
       /\ \A i \in DOMAIN calls :
             (/\ calls[i].op = "handleSaveConfig"
              /\ calls[i].pc = "probe"
              /\ calls[i].resp = "error"
              /\ calls'[i].pc = "done")
             => /\ sbConfig' = sbConfig
                /\ settings'.connectionStatus # "success"]_vars

\* the probe of a newly entered URL failed beside a stored configuration
C14_Witness ==
    \E i \in DOMAIN calls :
        /\ calls[i].op = "handleSaveConfig"
        /\ calls[i].arg.url = "https://other.supabase.co"
        /\ calls[i].pc = "done"
        /\ calls[i].result = "error"
        /\ sbConfig = CloudConfig
        /\ settings.connectionStatus = "error"
        /\ <<i, "Connection failed">> \in alerts

(***************************************************************************)
(* C15.  An updateClient or updatePayment whose id the backend did not     *)
(* hold when the update reached it has failed with an error.               *)
(***************************************************************************)
C15_UpdateUnknownIdFails ==
    \A i \in DOMAIN calls :
        (/\ calls[i].op \in {"updateClient", "updatePayment"}
         /\ calls[i].pc = "done"
         /\ ~calls[i].known)
        => calls[i].result = "error"

\* the place of a collection in the order clients, payments, expenses
Rank(t) ==
    CASE t = "clients" -> 1
      [] t = "payments" -> 2
      [] t = "expenses" -> 3
      [] OTHER -> 0

Rows(seq) == {seq[k] : k \in DOMAIN seq}

(***************************************************************************)
(* C16.  A remote importData upserts clients, then payments, then          *)
(* expenses: it starts with the first collection the file has rows for,    *)
(* moves on only to a later collection, only after the upsert before was   *)
(* answered without error, and passes over empty collections only.  When   *)
(* an upsert is answered with an error the import ends there with that     *)
(* error ("Import failed") and no later collection is attempted.           *)
(***************************************************************************)
C16_UpsertOrderAbortsAtFirstFailure ==
    [][\A i \in DOMAIN calls' :
          (calls'[i].op = "importData" /\ calls'[i].remote)
          => LET from == IF i \in DOMAIN calls THEN calls[i].pc ELSE "start"
                 to == calls'[i].pc
             IN  /\ (to \in Collections /\ to # from)
                      => /\ Rank(from) < Rank(to)
                         /\ from \in Collections => calls[i].resp = "ok"
                         /\ \A t \in Collections :
                               (Rank(from) < Rank(t) /\ Rank(t) < Rank(to))
                               => calls'[i].arg[t] = <<>>
                         /\ calls'[i].arg[to] # <<>>
                 /\ (from \in Collections /\ calls[i].resp = "error" /\ to # from)
                      => /\ to = "done"
                         /\ calls'[i].result = "error"
                         /\ <<i, "Import failed">> \in alerts']_vars

\* the clients of the file were upserted, the payments upsert was refused
\* and the expenses were never sent
C16_Witness ==
    \E i \in DOMAIN calls :
        /\ calls[i].op = "importData"
        /\ calls[i].remote
        /\ calls[i].arg = FullPayload
        /\ calls[i].pc = "done"
        /\ calls[i].result = "error"
        /\ Rows(FullPayload.clients) \subseteq Rows(cloud.clients)
        /\ Rows(FullPayload.payments) \cap Rows(cloud.payments) = {}
        /\ Rows(FullPayload.expenses) \cap Rows(cloud.expenses) = {}
        /\ <<i, "Import failed">> \in alerts

(***************************************************************************)
(* C17.  At the moment a remote clearData issues the deletion of clients   *)
(* no payment row remains in the backend.                                  *)
(***************************************************************************)
C17_ClientsDeletedAfterPaymentsCleared ==
    [][\A i \in DOMAIN calls :
          (/\ calls[i].op = "clearData"
           /\ calls[i].pc # "clients"
           /\ calls'[i].pc = "clients")
          => cloud'.payments = <<>>]_vars

(***************************************************************************)
(* The figures of the views.  Amounts are whole numbers; a missing type is *)
(* "absent"; a date is a day number.  Array.prototype.reduce runs from the *)
(* first element to the last.                                              *)
(***************************************************************************)
\* arr.filter(p => p.clientId === clientId)
PaymentsOf(payments, clientId) ==
    SelectSeq(payments, LAMBDA p : p.clientId = clientId)

RECURSIVE SignedSum(_)
\* reduce((sum, p) => p.type === 'REFUND' ? sum - p.amount : sum + p.amount, 0)
SignedSum(payments) ==
    IF payments = <<>> THEN 0
    ELSE LET p == payments[Len(payments)]
             sum == SignedSum(SubSeq(payments, 1, Len(payments) - 1))
         IN  IF p.type = "REFUND" THEN sum - p.amount ELSE sum + p.amount

RECURSIVE AmountSum(_)
\* reduce((sum, p) => sum + p.amount, 0)
AmountSum(items) ==
    IF items = <<>> THEN 0
    ELSE AmountSum(SubSeq(items, 1, Len(items) - 1)) + items[Len(items)].amount

\* Dashboard.stats: totalIncome
totalIncomeReceivedOnly(payments) ==
    AmountSum(SelectSeq(payments, LAMBDA p : p.type = "RECEIVED"))
    - AmountSum(SelectSeq(payments, LAMBDA p : p.type = "REFUND"))

totalIncome(payments) == SignedSum(payments)

RECURSIVE SortByDate(_)
\* arr.sort((a, b) => a.date.localeCompare(b.date)): a stable sort
SortByDate(items) ==
    IF items = <<>> THEN <<>>
    ELSE LET last == items[Len(items)]
             sorted == SortByDate(SubSeq(items, 1, Len(items) - 1))
         IN  SelectSeq(sorted, LAMBDA x : x.date <= last.date) \o <<last>>
             \o SelectSeq(sorted, LAMBDA x : x.date > last.date)

\* Reports.reportData: filteredPayments
filteredPaymentsMethodAsStored(payments, f) ==
    SortByDate(SelectSeq(payments, LAMBDA p :
        /\ p.date >= f.startDate /\ p.date <= f.endDate
        /\ (f.selectedClientId = ALL \/ p.clientId = f.selectedClientId)
        /\ (f.methodFilter = "ALL" \/ p.method = f.methodFilter)))

filteredPayments(payments, f) ==
    SortByDate(SelectSeq(payments, LAMBDA p :
        /\ p.date >= f.startDate /\ p.date <= f.endDate
        /\ (f.selectedClientId = ALL \/ p.clientId = f.selectedClientId)
        /\ (f.methodFilter = "ALL"
              \/ (IF p.method = "absent" THEN "Cash" ELSE p.method) = f.methodFilter)))

\* Reports.reportData: totalReceived - totalRefunded
netIncome(payments, f) ==
    AmountSum(SelectSeq(filteredPayments(payments, f), LAMBDA p : p.type # "REFUND"))
    - AmountSum(SelectSeq(filteredPayments(payments, f), LAMBDA p : p.type = "REFUND"))

\* data.clients.find(c => c.id === clientId)?.totalBilled || 0
BilledOf(clients, clientId) ==
    IF clientId \in Ids(clients)
    THEN (CHOOSE c \in {clients[k] : k \in DOMAIN clients} :
             c = clients[CHOOSE k \in DOMAIN clients :
                             /\ clients[k].id = clientId
                             /\ \A j \in 1..(k - 1) : clients[j].id # clientId]
         ).totalBilled
    ELSE 0

\* Clients.getClientFinancials
getClientFinancialsClamped(ledger, clientId) ==
    LET clientPayments == PaymentsOf(ledger.payments, clientId)
        received == AmountSum(SelectSeq(clientPayments, LAMBDA p : p.type # "REFUND"))
        refunded == AmountSum(SelectSeq(clientPayments, LAMBDA p : p.type = "REFUND"))
        netPaid == received - refunded
        billed == BilledOf(ledger.clients, clientId)
    IN  [netPaid |-> netPaid,
         due |-> IF billed - netPaid > 0 THEN billed - netPaid ELSE 0,
         billed |-> billed]

getClientFinancials(ledger, clientId) ==
    LET clientPayments == PaymentsOf(ledger.payments, clientId)
        received == AmountSum(SelectSeq(clientPayments, LAMBDA p : p.type # "REFUND"))
        refunded == AmountSum(SelectSeq(clientPayments, LAMBDA p : p.type = "REFUND"))
        netPaid == received - refunded
        billed == BilledOf(ledger.clients, clientId)
    IN  [netPaid |-> netPaid, due |-> billed - netPaid, billed |-> billed]

\* Reports.reportData: clientContext of a selected client that exists
clientContext(ledger, clientId) ==
    LET allPaid == SignedSum(PaymentsOf(ledger.payments, clientId))
        billed == BilledOf(ledger.clients, clientId)
    IN  [totalBilled |-> billed, totalPaidAllTime |-> allPaid,
         currentDue |-> billed - allPaid]

RECURSIVE totalDueUnclamped(_, _)
RECURSIVE totalDue(_, _)
\* Dashboard.stats: totalDue
totalDueUnclamped(clients, payments) ==
    IF clients = <<>> THEN 0
    ELSE LET client == clients[Len(clients)]
             paid == SignedSum(PaymentsOf(payments, client.id))
             due == client.totalBilled - paid
         IN  totalDueUnclamped(SubSeq(clients, 1, Len(clients) - 1), payments) + due

totalDue(clients, payments) ==
    IF clients = <<>> THEN 0
    ELSE LET client == clients[Len(clients)]
             paid == SignedSum(PaymentsOf(payments, client.id))
             due == client.totalBilled - paid
         IN  totalDue(SubSeq(clients, 1, Len(clients) - 1), payments)
             + (IF due > 0 THEN due ELSE 0)

RECURSIVE insightTotalDue(_, _)
\* generateFinancialInsight: totalDue
insightTotalDue(clients, payments) ==
    IF clients = <<>> THEN 0
    ELSE LET client == clients[Len(clients)]
             paid == SignedSum(PaymentsOf(payments, client.id))
             due == client.totalBilled - paid
         IN  insightTotalDue(SubSeq(clients, 1, Len(clients) - 1), payments)
             + (IF due > 0 THEN due ELSE 0)

(***************************************************************************)
(* The ledger specification: a loaded application on the local backend     *)
(* whose stored ledger is any of a bounded set; the user moves between the *)
(* views that compute figures from it.                                     *)
(***************************************************************************)
\* payments in a stored ledger
MaxPayments == 2

Billed == {0, 100, 1000}

PaymentTypes == {"RECEIVED", "REFUND", "absent"}

Dates == {1, 2}

\* the amount and the day of a payment
Entries == {[amount |-> 400, date |-> 1], [amount |-> 100, date |-> 2]}

\* a payment of the ledger but for its id
PaymentChoices ==
    {[Payment(0, c, e.amount, t) EXCEPT !.date = e.date] :
        c \in {1, 2}, e \in Entries, t \in PaymentTypes}

PaymentLists ==
    UNION {{[i \in 1..n |-> [f[i] EXCEPT !.id = i]] : f \in [1..n -> PaymentChoices]} :
              n \in 0..MaxPayments}

ClientLists ==
    {<<>>} \cup {<<Client(1, b1), Client(2, b2)>> : b1 \in Billed, b2 \in Billed}

Ledgers ==
    {[clients |-> c, payments |-> p, expenses |-> <<Expense(1, 30)>>] :
        c \in ClientLists, p \in PaymentLists}

LedgerViews == {"DASHBOARD", "CLIENTS", "REPORTS"}

LedgerInit ==
    /\ data \in Ledgers
    /\ sbConfig = NoConfig
    /\ cloud = EmptyLedger
    /\ localBlob = Blob(data)
    /\ DEFAULT_DATA = EmptyLedger
    /\ hasConnectionError = FALSE
    /\ isInitialized = TRUE
    /\ currentUser = AdminUser
    /\ storedUser = AdminUser
    /\ currentView = "DASHBOARD"
    /\ calls = <<>>
    /\ alerts = {}
    /\ settings = FreshSettings
    /\ report = FreshReport

LedgerNext == \E v \in LedgerViews : handleNavClick(v)

LedgerSpec == LedgerInit /\ [][LedgerNext]_vars

\* the filter state a user can set on the Reports view
ReportFilters ==
    [startDate : Dates, endDate : Dates, selectedClientId : {ALL, 1, 2},
     methodFilter : {"ALL", "Cash", "Bank"}]

\* the payment lists that hold the payments of `payments` in another order
Reorderings(payments) ==
    {[i \in DOMAIN payments |-> payments[perm[i]]] :
        perm \in Permutations(DOMAIN payments)}

RECURSIVE RefSum(_, _)
\* the sum of the amounts at the positions I of a list
RefSum(items, I) ==
    IF I = {} THEN 0
    ELSE LET i == CHOOSE x \in I : TRUE
         IN  items[i].amount + RefSum(items, I \ {i})

\* received less refunded over the positions that satisfy Of
RefNet(payments, Of(_)) ==
    RefSum(payments, {i \in DOMAIN payments :
                         Of(payments[i]) /\ payments[i].type # "REFUND"})
    - RefSum(payments, {i \in DOMAIN payments :
                           Of(payments[i]) /\ payments[i].type = "REFUND"})

RefBalance(ledger, k) ==
    ledger.clients[k].totalBilled
    - RefNet(ledger.payments, LAMBDA p : p.clientId = ledger.clients[k].id)

RECURSIVE RefOwed(_, _)
\* the sum over the positions I of the balances that are positive
RefOwed(ledger, I) ==
    IF I = {} THEN 0
    ELSE LET k == CHOOSE x \in I : TRUE
             due == RefBalance(ledger, k)
         IN  (IF due > 0 THEN due ELSE 0) + RefOwed(ledger, I \ {k})

\* C20: the dashboard's total outstanding due, and the one handed to the AI
\* summary, is the sum over the clients of max(0, due): a client in credit
\* contributes zero and lowers nobody else's due, and the total is never
\* negative
C20_TotalDueClamped ==
    (AppRendered /\ currentView = "DASHBOARD") =>
       LET owing == {k \in DOMAIN data.clients : RefBalance(data, k) > 0}
       IN  /\ totalDue(data.clients, data.payments)
                = RefOwed(data, DOMAIN data.clients)
           /\ totalDue(data.clients, data.payments) = RefOwed(data, owing)
           /\ totalDue(data.clients, data.payments) >= 0
           /\ insightTotalDue(data.clients, data.payments)
                = totalDue(data.clients, data.payments)

\* the dashboard of a ledger where client 1,
\* billed 100, paid 400 and client 2, billed 1000, paid 100
C20_Witness ==
    /\ AppRendered /\ currentView = "DASHBOARD"
    /\ Len(data.clients) = 2
    /\ RefBalance(data, 1) = -300
    /\ RefBalance(data, 2) = 900
    /\ totalDue(data.clients, data.payments) = 900

(***************************************************************************)
(* The Reports view: its filter state, the report it computes from the     *)
(* ledger, and what the CSV export and the table footer show of it.        *)
(***************************************************************************)
\* Reports.reportData: filteredExpenses
filteredExpensesClientOnly(expenses, f) ==
    IF f.selectedClientId = ALL
    THEN SortByDate(SelectSeq(expenses, LAMBDA e :
             e.date >= f.startDate /\ e.date <= f.endDate))
    ELSE <<>>

filteredExpenses(expenses, f) ==
    IF f.selectedClientId = ALL /\ f.methodFilter = "ALL"
    THEN SortByDate(SelectSeq(expenses, LAMBDA e :
             e.date >= f.startDate /\ e.date <= f.endDate))
    ELSE <<>>

\* Reports.reportData
reportData(ledger, f) ==
    LET payments == filteredPayments(ledger.payments, f)
        expenses == filteredExpenses(ledger.expenses, f)
        totalReceived == AmountSum(SelectSeq(payments, LAMBDA p : p.type # "REFUND"))
        totalRefunded == AmountSum(SelectSeq(payments, LAMBDA p : p.type = "REFUND"))
        totalExpenses == AmountSum(expenses)
    IN  [payments |-> payments, expenses |-> expenses,
         totalReceived |-> totalReceived, totalRefunded |-> totalRefunded,
         netIncome |-> totalReceived - totalRefunded,
         totalExpenses |-> totalExpenses,
         netProfit |-> (totalReceived - totalRefunded) - totalExpenses]

\* n.toFixed(2) of a whole number: its hundredths, printed with two decimals
toFixed(n) == [hundredths |-> n * 100, decimals |-> 2]

\* n.toLocaleString() of a whole number: the number, digits grouped
toLocaleString(n) == [hundredths |-> n * 100, decimals |-> 0]

\* handleExportCSV: the expense rows of the file
csvExpenseRows(ledger, f) ==
    IF f.selectedClientId = ALL /\ f.methodFilter = "ALL"
    THEN [i \in DOMAIN reportData(ledger, f).expenses |->
             [date |-> reportData(ledger, f).expenses[i].date,
              debit |-> toFixed(reportData(ledger, f).expenses[i].amount),
              credit |-> toFixed(0)]]
    ELSE <<>>

\* handleExportCSV: the TOTALS row of the file
csvTotalsNetCredit(ledger, f) ==
    [debit |-> toFixed(reportData(ledger, f).totalRefunded
                          + (IF f.methodFilter = "ALL"
                             THEN reportData(ledger, f).totalExpenses ELSE 0)),
     credit |-> toFixed(reportData(ledger, f).netIncome)]

csvTotals(ledger, f) ==
    [debit |-> toFixed(reportData(ledger, f).totalRefunded
                          + (IF f.methodFilter = "ALL"
                             THEN reportData(ledger, f).totalExpenses ELSE 0)),
     credit |-> toFixed(reportData(ledger, f).totalReceived)]

\* Reports: the TOTAL row of the table footer
tfootTotals(ledger, f) ==
    [debit |-> toLocaleString(reportData(ledger, f).totalRefunded
                                 + (IF f.methodFilter = "ALL"
                                    THEN reportData(ledger, f).totalExpenses ELSE 0)),
     credit |-> toLocaleString(reportData(ledger, f).totalReceived)]

\* Reports.methods: the methods offered by the method filter
methods(payments) ==
    {IF payments[i].method = "absent" THEN "Cash" ELSE payments[i].method :
        i \in DOMAIN payments}

ReportsRendered == AppRendered /\ currentView = "REPORTS"

setStartDate(d) ==
    /\ ReportsRendered
    /\ report' = [report EXCEPT !.startDate = d]
    /\ UNCHANGED <<appVars, storageVars, cloud, calls, alerts, settings>>

setEndDate(d) ==
    /\ ReportsRendered
    /\ report' = [report EXCEPT !.endDate = d]
    /\ UNCHANGED <<appVars, storageVars, cloud, calls, alerts, settings>>

setSelectedClientId(id) ==
    /\ ReportsRendered
    /\ id \in {ALL} \cup Ids(data.clients)
    /\ report' = [report EXCEPT !.selectedClientId = id]
    /\ UNCHANGED <<appVars, storageVars, cloud, calls, alerts, settings>>

setMethodFilter(method) ==
    /\ ReportsRendered
    /\ method \in {"ALL"} \cup methods(data.payments)
    /\ report' = [report EXCEPT !.methodFilter = method]
    /\ UNCHANGED <<appVars, storageVars, cloud, calls, alerts, settings>>

Methods == {"Cash", "Bank", "absent"}

\* the type, the amount and the day of a payment
ReportEntries ==
    {[type |-> "RECEIVED", amount |-> 400, date |-> 1],
     [type |-> "REFUND", amount |-> 100, date |-> 2]}

\* a payment of the reported ledger but for its id
ReportPaymentChoices ==
    {[Payment(0, c, e.amount, e.type) EXCEPT !.date = e.date, !.method = m] :
        c \in {1, 2}, e \in ReportEntries, m \in Methods}

ReportPaymentLists ==
    UNION {{[i \in 1..n |-> [f[i] EXCEPT !.id = i]] :
               f \in [1..n -> ReportPaymentChoices]} : n \in 0..MaxPayments}

ReportExpenseLists ==
    {<<>>, <<Expense(1, 30)>>,
     <<[Expense(1, 50) EXCEPT !.date = 2], Expense(2, 30)>>}

ReportLedgers ==
    {[clients |-> <<Client(1, 1000), Client(2, 100)>>, payments |-> p,
      expenses |-> e] : p \in ReportPaymentLists, e \in ReportExpenseLists}

ReportInit ==
    /\ data \in ReportLedgers
    /\ sbConfig = NoConfig
    /\ cloud = EmptyLedger
    /\ localBlob = Blob(data)
    /\ DEFAULT_DATA = EmptyLedger
    /\ hasConnectionError = FALSE
    /\ isInitialized = TRUE
    /\ currentUser = ViewerUser
    /\ storedUser = ViewerUser
    /\ currentView = "DASHBOARD"
    /\ calls = <<>>
    /\ alerts = {}
    /\ settings = FreshSettings
    /\ report = FreshReport

ReportNext ==
    \/ \E v \in {"DASHBOARD", "REPORTS"} : handleNavClick(v)
    \/ \E d \in Dates : setStartDate(d)
    \/ \E d \in Dates : setEndDate(d)
    \/ \E id \in {ALL, 1, 2} : setSelectedClientId(id)
    \/ \E method \in {"ALL", "Cash", "Bank"} : setMethodFilter(method)

ReportSpec == ReportInit /\ [][ReportNext]_vars

\* C21: a payment is in the filtered report exactly when its date is in
\* [start, end], both ends included, the client filter is ALL or its client,
\* and the method filter is ALL or its method, a missing method read as Cash
C21_PaymentIncludedIff ==
    ReportsRendered =>
       LET shown == reportData(data, report).payments
       IN  /\ \A i \in DOMAIN data.payments :
                  LET p == data.payments[i]
                  IN  (p.id \in Ids(shown)) <=>
                         /\ report.startDate <= p.date
                         /\ p.date <= report.endDate
                         /\ report.selectedClientId \in {ALL, p.clientId}
                         /\ \/ report.methodFilter = "ALL"
                            \/ report.methodFilter = p.method
                            \/ report.methodFilter = "Cash" /\ p.method = "absent"
           /\ Cardinality(Ids(shown)) = Len(shown)
           /\ \A i \in DOMAIN shown : shown[i] \in {data.payments[k] : k \in DOMAIN data.payments}

\* a report narrowed to one day, client 1 and Cash that shows a payment
\* without a method dated that day and leaves out a Bank payment of the
\* same day
C21_Witness ==
    /\ ReportsRendered
    /\ report = [startDate |-> 1, endDate |-> 1, selectedClientId |-> 1,
                 methodFilter |-> "Cash"]
    /\ Len(data.payments) = 2
    /\ data.payments[1].method = "absent" /\ data.payments[1].clientId = 1
    /\ data.payments[1].date = 1
    /\ data.payments[2].method = "Bank" /\ data.payments[2].clientId = 1
    /\ data.payments[2].date = 1
    /\ Ids(reportData(data, report).payments) = {data.payments[1].id}

\* the expenses of the ledger dated in [start, end]
RefExpensesInRange(ledger, f) ==
    {i \in DOMAIN ledger.expenses :
        f.startDate <= ledger.expenses[i].date /\ ledger.expenses[i].date <= f.endDate}

\* C22: when the client filter or the method filter is narrowed, the report
\* has no expense and an expense total of 0, in the view and in the CSV file,
\* even if expenses are dated in the range; when both are ALL it has exactly
\* the expenses dated in [start, end]
C22_ExpensesOnlyWhenUnfiltered ==
    ReportsRendered =>
       LET r == reportData(data, report)
           inRange == RefExpensesInRange(data, report)
       IN  IF report.selectedClientId = ALL /\ report.methodFilter = "ALL"
           THEN /\ Ids(r.expenses) = {data.expenses[i].id : i \in inRange}
                /\ Len(r.expenses) = Cardinality(inRange)
                /\ r.totalExpenses = RefSum(data.expenses, inRange)
                /\ Len(csvExpenseRows(data, report)) = Cardinality(inRange)
           ELSE /\ r.expenses = <<>>
                /\ r.totalExpenses = 0
                /\ csvExpenseRows(data, report) = <<>>

\* a report narrowed to client 1 with every method, over a range that holds
\* two payments of client 1 and two expenses: both payments, no expense
C22_Witness ==
    /\ ReportsRendered
    /\ report = [startDate |-> 1, endDate |-> 2, selectedClientId |-> 1,
                 methodFilter |-> "ALL"]
    /\ Len(data.payments) = 2
    /\ \A i \in 1..2 : data.payments[i].clientId = 1
    /\ data.payments[1].type = "RECEIVED" /\ data.payments[2].type = "REFUND"
    /\ Cardinality(RefExpensesInRange(data, report)) = 2
    /\ Len(reportData(data, report).payments) = 2
    /\ reportData(data, report).expenses = <<>>
    /\ reportData(data, report).totalExpenses = 0

\* the positions of the payments the filter lets through that are refunds
\* (refund = TRUE) or are not
RefIncluded(ledger, f, refund) ==
    {i \in DOMAIN ledger.payments :
        LET p == ledger.payments[i]
        IN  /\ f.startDate <= p.date /\ p.date <= f.endDate
            /\ f.selectedClientId \in {ALL, p.clientId}
            /\ f.methodFilter \in {"ALL", IF p.method = "absent" THEN "Cash" ELSE p.method}
            /\ (p.type = "REFUND") = refund}

\* C23: for every filter, the totals row of the CSV file and the footer of
\* the table show as debit the refunds of the included payments plus, only
\* if the method filter is ALL, the expenses of the report, and as credit
\* the amounts received of the included payments
C23_TotalsRow ==
    ReportsRendered =>
       LET debit == RefSum(data.payments, RefIncluded(data, report, TRUE))
                    + (IF report.methodFilter = "ALL"
                       THEN reportData(data, report).totalExpenses ELSE 0)
           credit == RefSum(data.payments, RefIncluded(data, report, FALSE))
       IN  /\ csvTotals(data, report)
                = [debit |-> toFixed(debit), credit |-> toFixed(credit)]
           /\ tfootTotals(data, report)
                = [debit |-> toLocaleString(debit), credit |-> toLocaleString(credit)]

\* an unfiltered report of a received 400, a refund of 100 and expenses of
\* 50 and 30: debit 180, credit 400
C23_Witness ==
    /\ ReportsRendered
    /\ report = FreshReport
    /\ Len(data.payments) = 2
    /\ data.payments[1].type = "REFUND" /\ data.payments[2].type = "RECEIVED"
    /\ Len(data.expenses) = 2
    /\ csvTotals(data, report) = [debit |-> toFixed(180), credit |-> toFixed(400)]
    /\ tfootTotals(data, report)
         = [debit |-> toLocaleString(180), credit |-> toLocaleString(400)]

\* C24: a step that only shows another view or changes the report filter,
\* and so only computes aggregations, leaves the Ledger Store as it was,
\* the order of its lists included
C24_AggregationLeavesStore ==
    [][(currentView' # currentView \/ report' # report) => data' = data]_vars

(***************************************************************************)
(* The forms of the Payments, Clients and Expenses views, on the local     *)
(* backend.  A form is submitted with the amount typed into its number     *)
(* input; the id of a form that adds a record is 0.                        *)
(***************************************************************************)
\* the amounts a user types
FormAmounts == {-5, 0, 40}

\* <input required type="number" min="0">: the browser raises the submit
\* event only for an amount that is not below min
SubmitAllowed(amount) == amount >= 0

\* !formData.amount
NoAmount(amount) == amount = 0

\* Payments.handleSave
Payments_handleSave(formData) ==
    /\ CanEdit
    /\ currentView = "PAYMENTS"
    /\ SubmitAllowed(formData.amount)
    /\ IF NoAmount(formData.amount)
       THEN UNCHANGED vars
       ELSE IF formData.id # 0
       THEN Mutate("updatePayment", formData)
       ELSE Mutate("addPayment", [formData EXCEPT !.id = FreshId])

\* Clients.handleSavePayment
Clients_handleSavePayment(selectedClient, paymentData) ==
    /\ CanEdit
    /\ currentView = "CLIENTS"
    /\ selectedClient \in Ids(data.clients)
    /\ SubmitAllowed(paymentData.amount)
    /\ IF NoAmount(paymentData.amount)
       THEN UNCHANGED vars
       ELSE Mutate("addPayment",
                   Payment(FreshId, selectedClient, paymentData.amount,
                           paymentData.type))

\* Expenses.handleSave
Expenses_handleSave(formData) ==
    /\ CanEdit
    /\ currentView = "EXPENSES"
    /\ SubmitAllowed(formData.amount)
    /\ IF NoAmount(formData.amount)
       THEN UNCHANGED vars
       ELSE Mutate("addExpense", Expense(FreshId, formData.amount))

\* the payment forms a user can submit: a new payment for a listed client,
\* or a listed payment with another amount
PaymentForms ==
    {Payment(0, cid, a, t) :
        cid \in Ids(data.clients), a \in FormAmounts, t \in {"RECEIVED", "REFUND"}}
    \cup {[data.payments[i] EXCEPT !.amount = a] :
             i \in DOMAIN data.payments, a \in FormAmounts}

\* a backup file edited by hand: a payment of amount 0 and an expense with
\* a negative amount
EditedBackup ==
    [clients |-> <<Client(1, 100)>>,
     payments |-> <<Payment(3, 1, 0, "RECEIVED")>>,
     expenses |-> <<Expense(3, -5)>>]

FormViews == {"CLIENTS", "PAYMENTS", "EXPENSES", "SETTINGS", "DASHBOARD"}

FormInit ==
    /\ data = SeedLedger
    /\ sbConfig = NoConfig
    /\ cloud = EmptyLedger
    /\ localBlob = Blob(data)
    /\ DEFAULT_DATA = EmptyLedger
    /\ hasConnectionError = FALSE
    /\ isInitialized = TRUE
    /\ currentUser = AdminUser
    /\ storedUser = AdminUser
    /\ currentView = "DASHBOARD"
    /\ calls = <<>>
    /\ alerts = {}
    /\ settings = FreshSettings
    /\ report = FreshReport

FormNext ==
    \/ \E v \in FormViews : handleNavClick(v)
    \/ \E formData \in PaymentForms : Payments_handleSave(formData)
    \/ \E id \in Ids(data.clients), a \in FormAmounts, t \in {"RECEIVED", "REFUND"} :
          Clients_handleSavePayment(id, [amount |-> a, type |-> t])
    \/ \E a \in FormAmounts : Expenses_handleSave([amount |-> a])
    \/ handleFileChange(ParsedFile(EditedBackup))

FormSpec == FormInit /\ [][FormNext]_vars

\* C25: whenever the payment form of the Payments view can be saved, saving
\* a new payment of amount 0 records a payment of amount 0 in the Ledger
\* Store, as saving any other amount records it
C25_ZeroAmountRecorded ==
    (/\ CanEdit /\ currentView = "PAYMENTS"
     /\ Len(calls) < MaxMutations
     /\ data.clients # <<>>)
    => ENABLED (/\ \E cid \in Ids(data.clients) :
                      Payments_handleSave(Payment(0, cid, 0, "RECEIVED"))
                /\ \E i \in DOMAIN data'.payments : data'.payments[i].amount = 0)

\* C26: in every Ledger Store reached by adding, updating, importing and
\* loading, no payment and no expense has an amount below 0
C26_AmountsNonNegative ==
    /\ \A i \in DOMAIN data.payments : data.payments[i].amount >= 0
    /\ \A i \in DOMAIN data.expenses : data.expenses[i].amount >= 0

(***************************************************************************)
(* The local specification: an admin on the local backend, local storage   *)
(* empty or holding a ledger, who edits the ledger and clears it.          *)
(***************************************************************************)
LocalViews == {"CLIENTS", "SETTINGS"}

LocalInit ==
    /\ localBlob \in {NoBlob, Blob(SeedLedger)}
    /\ data = getLocalData(localBlob, EmptyLedger)
    /\ sbConfig = NoConfig
    /\ cloud = EmptyLedger
    /\ DEFAULT_DATA = EmptyLedger
    /\ hasConnectionError = FALSE
    /\ isInitialized = TRUE
    /\ currentUser = AdminUser
    /\ storedUser = AdminUser
    /\ currentView = "CLIENTS"
    /\ calls = <<>>
    /\ alerts = {}
    /\ settings = FreshSettings
    /\ report = FreshReport

LocalNext ==
    \/ addClient
    \/ updateClient
    \/ addPayment
    \/ updatePayment
    \/ deletePayment
    \/ addExpense
    \/ deleteExpense
    \/ \E v \in LocalViews : handleNavClick(v)
    \/ handleClearData

LocalSpec == LocalInit /\ [][LocalNext]_vars

\* C27: on the local backend, once clearData has completed and nothing was
\* done after it, the backend holds no client, no payment and no expense,
\* whatever was done before the clear: that is what the next fetchData
\* reads and what the next add appends its item to
C27_ClearEmptiesLocalBackend ==
    \A i \in DOMAIN calls :
        (/\ calls[i].op = "clearData"
         /\ ~calls[i].remote
         /\ calls[i].result = "ok"
         /\ IsLast(i))
        => /\ getLocalData(localBlob, DEFAULT_DATA) = EmptyLedger
           /\ LocalFetch(localBlob, DEFAULT_DATA).value = EmptyLedger
           /\ LocalApply("addExpense", Expense(FreshId, 30),
                         getLocalData(localBlob, DEFAULT_DATA))
                = [EmptyLedger EXCEPT !.expenses = <<Expense(FreshId, 30)>>]

\* C28: once every mutation in flight has resolved, the Ledger Store holds
\* no item whose add the backend rejected, however the mutations overlapped
C28_NoRejectedAddRemains ==
    AllReturned =>
       \A i \in DOMAIN calls :
          (/\ calls[i].op \in {"addClient", "addPayment", "addExpense"}
           /\ calls[i].result = "error")
          => calls[i].arg.id \notin Ids(data[TableOf(calls[i].op)])

(***************************************************************************)
(* The session specification: the application after its initial load, on   *)
(* the login screen or with a restored user; users log in and out, an      *)
(* admin adds clients while a reload may be in flight, and a failed load   *)
(* shows the connection-error screen.                                      *)
(***************************************************************************)
\* App.handleLogin: setCurrentUser, store the user, loadData() not awaited
handleLogin(user) ==
    /\ currentUser' = user
    /\ storedUser' = user
    /\ LoadCall("loadData")
    /\ UNCHANGED <<currentView, sbConfig, localBlob, cloud, alerts, settings, report>>

\* email.toLowerCase()
toLowerCase(email) ==
    IF email = "Admin@Email.com" THEN "admin@email.com" ELSE email

\* App.tsx render: <Login> is returned when no user is set
LoginRendered == isInitialized /\ ~hasConnectionError /\ currentUser = NoUser

\* Login.handleLogin: the two accounts, or setError
Login_handleLogin(email, password) ==
    /\ LoginRendered
    /\ UserOps < 1 + MaxBulkOps
    /\ IF toLowerCase(email) = "admin@email.com" /\ password = "123456"
       THEN handleLogin(AdminUser)
       ELSE IF toLowerCase(email) = "viewer@email.com" /\ password = "123456"
       THEN handleLogin(ViewerUser)
       ELSE UNCHANGED vars

\* App.handleLogout (Sidebar: onLogout)
handleLogout ==
    /\ AppRendered
    /\ currentUser' = NoUser
    /\ storedUser' = NoUser
    /\ currentView' = "DASHBOARD"
    /\ settings' = FreshSettings
    /\ report' = FreshReport
    /\ UNCHANGED <<data, hasConnectionError, isInitialized, sbConfig, localBlob,
                   DEFAULT_DATA, cloud, calls, alerts>>

Emails == {"admin@email.com", "Admin@Email.com", "viewer@email.com"}

Passwords == {"123456", "letmein"}

SessionViews == {"CLIENTS", "SETTINGS"}

\* what the initial load left: the remote rows, the local blob, or, for a
\* blob with a null client, the connection-error screen
SessionInit ==
    /\ sbConfig \in {NoConfig, CloudConfig}
    /\ cloud = IF getSupabaseClient(sbConfig) THEN SeedLedger ELSE EmptyLedger
    /\ localBlob \in IF getSupabaseClient(sbConfig) THEN {NoBlob}
                     ELSE {Blob(LocalSeed), Blob(NullClientLedger)}
    /\ hasConnectionError = (localBlob = Blob(NullClientLedger))
    /\ data = IF getSupabaseClient(sbConfig) THEN SeedLedger
              ELSE IF hasConnectionError THEN EmptyLedger ELSE LocalSeed
    /\ DEFAULT_DATA = EmptyLedger
    /\ isInitialized = TRUE
    /\ storedUser \in {NoUser, ViewerUser, AdminUser}
    /\ currentUser = storedUser
    /\ currentView = "DASHBOARD"
    /\ calls = <<>>
    /\ alerts = {}
    /\ settings = FreshSettings
    /\ report = FreshReport

SessionNext ==
    \/ \E email \in Emails, password \in Passwords :
          Login_handleLogin(email, password)
    \/ handleLogout
    \/ \E v \in SessionViews : handleNavClick(v)
    \/ addClient
    \/ CloudWrite
    \/ MutationSettled
    \/ CloudSelect
    \/ LoadSettled
    \/ RetryConnection
    \/ CheckSettings

SessionSpec == SessionInit /\ [][SessionNext]_vars

\* C29: when an add that the backend acknowledged and loads of the same
\* backend that did not fall back have all resolved, the added client is in
\* the Ledger Store, also when a load overlapped the add
C29_LoadKeepsAcknowledgedMutation ==
    AllReturned =>
       \A i \in DOMAIN calls :
          (/\ calls[i].op = "addClient"
           /\ calls[i].result = "ok"
           /\ \A j \in DOMAIN calls \ {i} :
                 /\ calls[j].op = "loadData"
                 /\ calls[j].remote = calls[i].remote
                 /\ calls[j].result = "ok"
                 /\ ~calls[j].fellBack)
          => calls[i].arg.id \in Ids(data.clients)

\* C30: the current user is an admin, and the Settings view is rendered,
\* only in a session whose stored user is the admin, that is after the admin
\* credentials were accepted or an admin session was restored
C30_AdminOnlyByLogin ==
    /\ currentUser.role = "ADMIN" => storedUser = AdminUser
    /\ SettingsRendered => storedUser = AdminUser

====
